---- MODULE Spec2Model ----
(***************************************************************************)
(* Model of the insurance-policy-optimizer recommendation core:            *)
(*   src/utils.py  load_clean_data, validate_user_input,                   *)
(*                 calculate_risk_score,                                   *)
(*                 get_policy_recommendations_enhanced                     *)
(*   src/agent.py  generate_llm_reasoning,                                 *)
(*                 get_policy_recommendation_with_ai,                      *)
(*                 calculate_premium_estimate                              *)
(*   src/app.py    the "Get AI Recommendation" submit handler              *)
(*   src/insurance_app_clean.py  validate_user_input, calculate_risk_score *)
(* A catalog is a sequence of rows (the DataFrame, in index order); a      *)
(* goal is a sequence of one-character strings, so that str.lower() and    *)
(* the substring test `in` are computed, not assumed.                      *)
(***************************************************************************)
EXTENDS Integers, Sequences, FiniteSets, TLC

VARIABLES
    source,   \* cleaned_insurance_data.csv: missing, or its rows
    cache,    \* what st.cache_data holds for load_clean_data
    request,  \* the profile of the last call
    risk,     \* what the call's calculate_risk_score(...) evaluated to
    stage,    \* the values the local age_filtered took during the call
    outcome,  \* how the last call ended: error value, result or exception
    reads,    \* how many times the body of load_clean_data has run
    invoked,  \* which collaborators the last request reached
    llm_pipeline, \* agent.py's module global: "None" or "pipeline"
    answer,   \* what get_policy_recommendation_with_ai returned
    session,  \* st.session_state of app.py
    validation, \* the last validate_user_input call and its return value
    scored,   \* the last two calculate_risk_score calls and their values
    estimate, \* the last calculate_premium_estimate call and its return value
    page      \* what the last run of app.py's Policy Comparison page did

vars == <<source, cache, request, risk, stage, outcome, reads, invoked,
          llm_pipeline, answer, session, validation, scored, estimate, page>>

(***************************************************************************)
(* Bounds of the model.                                                    *)
(***************************************************************************)
\* longest catalog built from the varied row set RowSet
MaxRows == 3
\* longest catalog built from the ranking row set LongRowSet
MaxLongRows == 6

(***************************************************************************)
(* Program constants of get_policy_recommendations_enhanced.               *)
(***************************************************************************)
AgeWindow == 10
CoverageFloor == 10
FamilyCoverage == 15
ShortlistSize == 5

(***************************************************************************)
(* Python values, tagged with their dynamic type: calculate_risk_score is  *)
(* called positionally and what it does depends on the type it receives.   *)
(***************************************************************************)
PyNum(n) == [t |-> "num", v |-> n, s |-> ""]
PyStr(x) == [t |-> "str", v |-> 0, s |-> x]

HealthValues == {"Good", "Average", "Poor"}
PolicyTypes == {"Term Life", "Health", "Comprehensive", "Accident Cover"}

(***************************************************************************)
(* Text: str.lower(), str.strip() and the substring operator.              *)
(***************************************************************************)
UpperCase == <<"A","B","C","D","E","F","G","H","I","J","K","L","M",
               "N","O","P","Q","R","S","T","U","V","W","X","Y","Z">>
LowerCase == <<"a","b","c","d","e","f","g","h","i","j","k","l","m",
               "n","o","p","q","r","s","t","u","v","w","x","y","z">>

LowerChar(c) ==
    IF \E i \in 1..Len(UpperCase) : UpperCase[i] = c
    THEN LowerCase[CHOOSE i \in 1..Len(UpperCase) : UpperCase[i] = c]
    ELSE c

\* goal.lower()
Lower(s) == [i \in 1..Len(s) |-> LowerChar(s[i])]

\* sub in s
Contains(s, sub) ==
    \E i \in 1..(Len(s) - Len(sub) + 1) : SubSeq(s, i, i + Len(sub) - 1) = sub

\* the characters str.strip() removes
Whitespace == {" ", "\t", "\n"}

\* s.strip(): from the first to the last character that is not whitespace
Strip(s) ==
    LET I == { i \in 1..Len(s) : s[i] \notin Whitespace }
        lo == CHOOSE i \in I : \A j \in I : i <= j
        hi == CHOOSE i \in I : \A j \in I : j <= i
    IN  IF I = {} THEN <<>> ELSE SubSeq(s, lo, hi)

KwFamily == <<"f","a","m","i","l","y">>
KwDependent == <<"d","e","p","e","n","d","e","n","t">>
KwCritical == <<"c","r","i","t","i","c","a","l">>
KwSerious == <<"s","e","r","i","o","u","s">>
KwSave == <<"s","a","v","e">>
KwInvestment == <<"i","n","v","e","s","t","m","e","n","t">>

(***************************************************************************)
(* The catalog.  A source row is one line of cleaned_insurance_data.csv;   *)
(* read_csv gives the rows a RangeIndex (idx), which every filter keeps.   *)
(***************************************************************************)
Row(ty, cov, prem, a) ==
    [Policy_Type |-> ty, Coverage_Lakhs |-> cov, Premium_INR |-> prem, Age |-> a]

RowSet ==
    { Row("Term Life", 10, 5000, 30),
      Row("Health", 15, 5000, 35),
      Row("Comprehensive", 20, 6000, 55),
      Row("Accident Cover", 5, 2000, 30),
      Row("Health", 10, 4000, 40),
      Row("Term Life", 20, 5000, 30) }

LongRowSet ==
    { Row("Term Life", 10, 5000, 30),
      Row("Health", 20, 5000, 30),
      Row("Comprehensive", 10, 5000, 35),
      Row("Health", 15, 4000, 38) }

\* all sequences over S of length 0..n
SeqsUpTo(S, n) == UNION { [1..k -> S] : k \in 0..n }

MissingFile == [exists |-> FALSE, parses |-> FALSE, rows |-> <<>>]
\* a file pd.read_csv cannot parse (no columns, bad encoding, ragged lines)
UnparseableFile == [exists |-> TRUE, parses |-> FALSE, rows |-> <<>>]
FileWith(rows) == [exists |-> TRUE, parses |-> TRUE, rows |-> rows]

\* pd.read_csv: the rows in file order, indexed 0..n-1
ReadCsv(rows) ==
    [i \in 1..Len(rows) |->
        [idx |-> i - 1,
         Policy_Type |-> rows[i].Policy_Type,
         Coverage_Lakhs |-> rows[i].Coverage_Lakhs,
         Premium_INR |-> rows[i].Premium_INR,
         Age |-> rows[i].Age]]

\* a call that returned df, or that raised the named exception
Returned(df) == [raised |-> "", df |-> df]
Raised(exc) == [raised |-> exc, df |-> <<>>]

\* pd.read_csv("cleaned_insurance_data.csv")
read_csv(src) ==
    IF ~src.exists THEN Raised("FileNotFoundError")
    ELSE IF ~src.parses THEN Raised("ParserError")
    ELSE Returned(ReadCsv(src.rows))

\* the body with `except FileNotFoundError` as its only handler
load_clean_data_body_OnlyFileNotFound(src) ==
    LET r == read_csv(src)
    IN  IF r.raised = "" THEN r
        ELSE IF r.raised = "FileNotFoundError" THEN Returned(<<>>)
        ELSE r

\* the body of load_clean_data: try read_csv; both handlers give
\* pd.DataFrame()
load_clean_data_body(src) ==
    LET r == read_csv(src)
    IN  IF r.raised = "" THEN r
        ELSE IF r.raised = "FileNotFoundError" THEN Returned(<<>>)
        ELSE Returned(<<>>)

NotCached == [loaded |-> FALSE, df |-> <<>>]
Cached(df) == [loaded |-> TRUE, df |-> df]

\* a cache that never holds a value: the body runs on every call
BodyRuns_Always(c) == TRUE

\* @st.cache_data: the body runs only while no return value is stored
BodyRuns(c) == ~c.loaded

\* @st.cache_data: the first call runs the body, later calls return its value
load_clean_data(c, src) ==
    IF BodyRuns(c) THEN load_clean_data_body(src) ELSE Returned(c.df)

\* what st.cache_data holds after a call: a return value is stored, an
\* exception stores nothing
CacheAfter(c, ld) == IF ld.raised = "" THEN Cached(ld.df) ELSE c

(***************************************************************************)
(* validate_user_input(age, income, health, goal): the pair it returns.    *)
(***************************************************************************)
MinAge == 18
MaxAge == 100
MaxIncome == 1000
MinGoalLen == 5

MsgAge == "Age must be between 18 and 100 years."
MsgIncome == "Annual income must be between 1 and 1000 LPA."
MsgHealth == "Please select a valid health status."
MsgNoGoal == "Please provide your insurance goal."
MsgShortGoal == "Please provide a more detailed insurance goal (at least 5 characters)."
MsgNumeric == "Please enter valid numeric values for age and income."
MsgValid == "Valid input"

Validated(ok, msg) == [ok |-> ok, message |-> msg, raised |-> ""]
ValidateRaised(exc) == [ok |-> FALSE, message |-> "", raised |-> exc]

\* the checks without the strip: len(goal) < 5
validate_user_input_NoStrip(age, income, health, goal) ==
    IF age.t = "str" THEN ValidateRaised("TypeError")
    ELSE IF age.v < MinAge \/ age.v > MaxAge THEN Validated(FALSE, MsgAge)
    ELSE IF income.t = "str" THEN ValidateRaised("TypeError")
    ELSE IF income.v <= 0 \/ income.v > MaxIncome
    THEN Validated(FALSE, MsgIncome)
    ELSE IF health \notin {"Good", "Average", "Poor"}
    THEN Validated(FALSE, MsgHealth)
    ELSE IF goal = <<>> THEN Validated(FALSE, MsgNoGoal)
    ELSE IF Len(goal) < MinGoalLen THEN Validated(FALSE, MsgShortGoal)
    ELSE Validated(TRUE, MsgValid)

\* utils.py.  Comparing text with a number (age < 18, income <= 0) raises
\* TypeError, which this version does not catch.
validate_user_input(age, income, health, goal) ==
    IF age.t = "str" THEN ValidateRaised("TypeError")
    ELSE IF age.v < MinAge \/ age.v > MaxAge THEN Validated(FALSE, MsgAge)
    ELSE IF income.t = "str" THEN ValidateRaised("TypeError")
    ELSE IF income.v <= 0 \/ income.v > MaxIncome
    THEN Validated(FALSE, MsgIncome)
    ELSE IF health \notin {"Good", "Average", "Poor"}
    THEN Validated(FALSE, MsgHealth)
    ELSE IF Strip(goal) = <<>> THEN Validated(FALSE, MsgNoGoal)
    ELSE IF Len(Strip(goal)) < MinGoalLen THEN Validated(FALSE, MsgShortGoal)
    ELSE Validated(TRUE, MsgValid)

\* int(x), float(x): a number converts, text that is no numeral raises
\* ValueError
ToNumber(x) ==
    IF x.t = "num" THEN [raised |-> "", v |-> x.v]
    ELSE [raised |-> "ValueError", v |-> 0]

\* insurance_app_clean.py: the same checks after int(age), float(income),
\* inside try ... except (ValueError, TypeError)
validate_user_input_clean(age, income, health, goal) ==
    LET a == ToNumber(age)
        i == ToNumber(income)
    IN  IF a.raised # "" \/ i.raised # ""
        THEN Validated(FALSE, MsgNumeric)
        ELSE validate_user_input(PyNum(a.v), PyNum(i.v), health, goal)

(***************************************************************************)
(* calculate_risk_score(age, health, income).  Scores are in hundredths.   *)
(* A str compared with a number (income < 5) raises TypeError.             *)
(***************************************************************************)
RiskRaised == [raised |-> TRUE, value |-> 0]
RiskValue(v) == [raised |-> FALSE, value |-> v]

\* the age brackets with the bases of the two middle ones exchanged
AgeBase_SwappedBrackets(age) ==
    IF age.v < 25 THEN 10
    ELSE IF age.v < 35 THEN 20
    ELSE IF age.v < 50 THEN 15
    ELSE 30

\* tenths
AgeBase(age) ==
    IF age.v < 25 THEN 10
    ELSE IF age.v < 35 THEN 15
    ELSE IF age.v < 50 THEN 20
    ELSE 30

\* a Poor multiplier of 3.0 in place of 2.5
HealthMultiplier_PoorTripled(health) ==
    IF health.t = "str" /\ health.s = "Good" THEN 10
    ELSE IF health.t = "str" /\ health.s = "Average" THEN 15
    ELSE IF health.t = "str" /\ health.s = "Poor" THEN 30
    ELSE 10

\* health_multiplier.get(health, 1.0), in tenths
HealthMultiplier(health) ==
    IF health.t = "str" /\ health.s = "Good" THEN 10
    ELSE IF health.t = "str" /\ health.s = "Average" THEN 15
    ELSE IF health.t = "str" /\ health.s = "Poor" THEN 25
    ELSE 10

\* the income brackets with their upper ends included
IncomeMultiplier_Inclusive(income) ==
    IF income.v <= 5 THEN 13
    ELSE IF income.v <= 15 THEN 11
    ELSE 9

\* tenths
IncomeMultiplier(income) ==
    IF income.v < 5 THEN 13
    ELSE IF income.v < 15 THEN 11
    ELSE 9

\* The double product against the exact decimal (thousandths): 1 above,
\* -1 below, 0 equal.  Only the halfway products matter to round(x, 2).
FloatExcess(thousandths) ==
    IF thousandths = 2925 \/ thousandths = 2475 THEN 1
    ELSE IF thousandths = 2025 THEN -1
    ELSE 0

\* round(risk_score, 2): correctly rounded, exact ties to even
Round2(thousandths) ==
    LET q == thousandths \div 10
        r == thousandths % 10
        e == FloatExcess(thousandths)
        up == r > 5 \/ (r = 5 /\ (e > 0 \/ (e = 0 /\ q % 2 = 1)))
    IN  IF up THEN q + 1 ELSE q

calculate_risk_score(age, health, income) ==
    IF age.t = "str" \/ income.t = "str"
    THEN RiskRaised
    ELSE RiskValue(Round2(AgeBase(age) * HealthMultiplier(health)
                          * IncomeMultiplier(income)))

\* insurance_app_clean.py: the same score after int(age), float(income)
calculate_risk_score_clean(age, health, income) ==
    LET a == ToNumber(age)
        i == ToNumber(income)
    IN  IF a.raised # "" \/ i.raised # ""
        THEN RiskRaised
        ELSE RiskValue(Round2(AgeBase(PyNum(a.v)) * HealthMultiplier(health)
                              * IncomeMultiplier(PyNum(i.v))))

(***************************************************************************)
(* The filter stages of get_policy_recommendations_enhanced.               *)
(***************************************************************************)
\* df[(Age >= age - 10) & (Age <= age + 10) & (Coverage_Lakhs >= 10)]
AgeCoverageMask(df, age) ==
    LET keep(r) == /\ r.Age >= age - AgeWindow
                   /\ r.Age <= age + AgeWindow
                   /\ r.Coverage_Lakhs >= CoverageFloor
    IN  SelectSeq(df, keep)

\* the fallback taking the whole catalog, without the coverage mask
CoverageMask_NoFloor(df) == df

\* df[Coverage_Lakhs >= 10]
CoverageMask(df) ==
    LET keep(r) == r.Coverage_Lakhs >= CoverageFloor
    IN  SelectSeq(df, keep)

\* AgeCoverageStage without the fallback to the whole catalog
AgeCoverageStage_NoFallback(df, age) == AgeCoverageMask(df, age)

\* age_filtered after the age and coverage filter and its fallback
AgeCoverageStage(df, age) ==
    IF AgeCoverageMask(df, age) = <<>>
    THEN CoverageMask(df)
    ELSE AgeCoverageMask(df, age)

\* health.lower() on the three values of the form's select box
HealthLower(health) ==
    CASE health = "Good" -> "good"
      [] health = "Average" -> "average"
      [] health = "Poor" -> "poor"
      [] OTHER -> health

\* rows[rows.Policy_Type.isin(types)]
TypeIsIn(rows, types) ==
    LET keep(r) == r.Policy_Type \in types
    IN  SelectSeq(rows, keep)

\* HealthStage restricting every health value but Good
HealthStage_NotGood(rows, health) ==
    IF HealthLower(health) # "good"
    THEN TypeIsIn(rows, {"Health", "Comprehensive"})
    ELSE rows

\* HealthStage keeping the entering rows when the restriction leaves none
HealthStage_Fallback(rows, health) ==
    IF HealthLower(health) = "poor" /\ TypeIsIn(rows, {"Health", "Comprehensive"}) # <<>>
    THEN TypeIsIn(rows, {"Health", "Comprehensive"})
    ELSE rows

\* age_filtered after the health-based filtering
HealthStage(rows, health) ==
    IF HealthLower(health) = "poor"
    THEN TypeIsIn(rows, {"Health", "Comprehensive"})
    ELSE rows

\* rows[rows.Coverage_Lakhs >= 15]
FamilyCoverageMask(rows) ==
    LET keep(r) == r.Coverage_Lakhs >= FamilyCoverage
    IN  SelectSeq(rows, keep)

\* GoalStage testing critical/serious before family/dependent
GoalStage_CriticalFirst(rows, goal) ==
    LET goal_lower == Lower(goal)
    IN  IF Contains(goal_lower, KwCritical) \/ Contains(goal_lower, KwSerious)
        THEN TypeIsIn(rows, {"Health", "Comprehensive"})
        ELSE IF Contains(goal_lower, KwFamily) \/ Contains(goal_lower, KwDependent)
        THEN FamilyCoverageMask(rows)
        ELSE IF Contains(goal_lower, KwSave) \/ Contains(goal_lower, KwInvestment)
        THEN TypeIsIn(rows, {"Term Life", "Comprehensive"})
        ELSE rows

\* GoalStage keeping the entering rows when the restriction leaves none
GoalStage_Fallback(rows, goal) ==
    LET goal_lower == Lower(goal)
        picked ==
            IF Contains(goal_lower, KwFamily) \/ Contains(goal_lower, KwDependent)
            THEN FamilyCoverageMask(rows)
            ELSE IF Contains(goal_lower, KwCritical) \/ Contains(goal_lower, KwSerious)
            THEN TypeIsIn(rows, {"Health", "Comprehensive"})
            ELSE IF Contains(goal_lower, KwSave) \/ Contains(goal_lower, KwInvestment)
            THEN TypeIsIn(rows, {"Term Life", "Comprehensive"})
            ELSE rows
    IN  IF picked = <<>> THEN rows ELSE picked

\* age_filtered after the goal-based if / elif / elif
GoalStage(rows, goal) ==
    LET goal_lower == Lower(goal)
    IN  IF Contains(goal_lower, KwFamily) \/ Contains(goal_lower, KwDependent)
        THEN FamilyCoverageMask(rows)
        ELSE IF Contains(goal_lower, KwCritical) \/ Contains(goal_lower, KwSerious)
        THEN TypeIsIn(rows, {"Health", "Comprehensive"})
        ELSE IF Contains(goal_lower, KwSave) \/ Contains(goal_lower, KwInvestment)
        THEN TypeIsIn(rows, {"Term Life", "Comprehensive"})
        ELSE rows

(***************************************************************************)
(* Ranking.  affordability_score = Premium_INR / (income * 1000) * 12 is   *)
(* kept as the fraction <<numerator, denominator>>.                        *)
(***************************************************************************)
Abs(x) == IF x < 0 THEN -x ELSE x

WithDerived(rows, age, income) ==
    [i \in 1..Len(rows) |->
        [idx |-> rows[i].idx,
         Policy_Type |-> rows[i].Policy_Type,
         Coverage_Lakhs |-> rows[i].Coverage_Lakhs,
         Premium_INR |-> rows[i].Premium_INR,
         Age |-> rows[i].Age,
         age_diff |-> Abs(rows[i].Age - age),
         affordability_score |-> <<rows[i].Premium_INR * 12, income * 1000>>]]

FracLess(a, b) == a[1] * b[2] < b[1] * a[2]
FracEq(a, b) == a[1] * b[2] = b[1] * a[2]

\* KeyLess with Coverage_Lakhs ascending like the other two keys
KeyLess_CoverageAscending(a, b) ==
    \/ FracLess(a.affordability_score, b.affordability_score)
    \/ /\ FracEq(a.affordability_score, b.affordability_score)
       /\ a.age_diff < b.age_diff
    \/ /\ FracEq(a.affordability_score, b.affordability_score)
       /\ a.age_diff = b.age_diff
       /\ a.Coverage_Lakhs < b.Coverage_Lakhs

\* the order of sort_values(['affordability_score', 'age_diff',
\* 'Coverage_Lakhs'], ascending=[True, True, False])
KeyLess(a, b) ==
    \/ FracLess(a.affordability_score, b.affordability_score)
    \/ /\ FracEq(a.affordability_score, b.affordability_score)
       /\ a.age_diff < b.age_diff
    \/ /\ FracEq(a.affordability_score, b.affordability_score)
       /\ a.age_diff = b.age_diff
       /\ a.Coverage_Lakhs > b.Coverage_Lakhs

\* sort_values on several columns is a lexsort: rows equal on every key
\* keep the order they had
SortValues(rows) ==
    LET n == Len(rows)
        Before(i, j) == \/ KeyLess(rows[i], rows[j])
                        \/ (~KeyLess(rows[j], rows[i]) /\ i < j)
        rank(i) == Cardinality({j \in 1..n : Before(j, i)})
    IN  [k \in 1..n |-> rows[CHOOSE i \in 1..n : rank(i) = k - 1]]

\* head(3), as the simple recommendation path takes
Head3(rows) ==
    IF Len(rows) <= 3 THEN rows ELSE SubSeq(rows, 1, 3)

\* recommended.head(5)
Head5(rows) ==
    IF Len(rows) <= ShortlistSize THEN rows ELSE SubSeq(rows, 1, ShortlistSize)

NoPolicy ==
    [idx |-> -1, Policy_Type |-> "", Coverage_Lakhs |-> 0, Premium_INR |-> 0,
     Age |-> 0, age_diff |-> 0, affordability_score |-> <<0, 1>>]

ErrNoData == "Unable to load insurance data"
ErrNoSuitable == "No suitable policies found for your profile. Please consult with an insurance advisor."

NoOutcome ==
    [kind |-> "none", error |-> "", best_policy |-> NoPolicy,
     top_policies |-> <<>>, risk_score |-> 0, total_available |-> 0]
ErrorOutcome(msg) == [NoOutcome EXCEPT !.kind = "error", !.error = msg]
RaisedOutcome(exc) == [NoOutcome EXCEPT !.kind = "raised", !.error = exc]

\* the values the local age_filtered takes, and what line 74 evaluated to
NoStage ==
    [ran |-> FALSE, age_cov |-> <<>>, health |-> <<>>, goal |-> <<>>,
     ranked |-> <<>>]

StagesOf(df, age, income, health, goal) ==
    LET s1 == AgeCoverageStage(df, age)
        s2 == HealthStage(s1, health)
        s3 == GoalStage(s2, goal)
    IN  [ran |-> TRUE, age_cov |-> s1, health |-> s2, goal |-> s3,
         ranked |-> IF s3 = <<>> THEN <<>>
                    ELSE SortValues(WithDerived(s3, age, income))]

\* ResultOf with best_policy taken from the other end of the ranking
ResultOf_BestLast(st, risk_score) ==
    IF st.goal = <<>>
    THEN ErrorOutcome(ErrNoSuitable)
    ELSE [kind |-> "result", error |-> "",
          best_policy |-> st.ranked[Len(st.ranked)],
          top_policies |-> Head5(st.ranked),
          risk_score |-> risk_score,
          total_available |-> Len(st.goal)]

\* from the emptiness test to the return, given the local risk_score
ResultOf(st, risk_score) ==
    IF st.goal = <<>>
    THEN ErrorOutcome(ErrNoSuitable)
    ELSE [kind |-> "result", error |-> "",
          best_policy |-> st.ranked[1],
          top_policies |-> Head5(st.ranked),
          risk_score |-> risk_score,
          total_available |-> Len(st.goal)]

(***************************************************************************)
(* agent.py calculate_premium_estimate(age, coverage_lakhs, policy_type,   *)
(* health).  Rates and multipliers are in tenths, the premium in rupees.   *)
(***************************************************************************)
\* base_rates.get(policy_type, 0.8)
BaseRate(policy_type) ==
    IF policy_type = "Term Life" THEN 5
    ELSE IF policy_type = "Health" THEN 8
    ELSE IF policy_type = "Comprehensive" THEN 12
    ELSE IF policy_type = "Accident Cover" THEN 3
    ELSE 8

\* the age multiplier on the brackets of calculate_risk_score
AgeMultiplier_RiskBrackets(age) ==
    IF age < 25 THEN 8
    ELSE IF age < 35 THEN 10
    ELSE IF age < 50 THEN 13
    ELSE 25

AgeMultiplier(age) ==
    IF age < 25 THEN 8
    ELSE IF age < 35 THEN 10
    ELSE IF age < 45 THEN 13
    ELSE IF age < 55 THEN 17
    ELSE 25

\* health_multiplier.get(health, 1.0)
PremiumHealthMultiplier(health) ==
    IF health = "Good" THEN 10
    ELSE IF health = "Average" THEN 13
    ELSE IF health = "Poor" THEN 20
    ELSE 10

\* round(num / den) for num >= 0: to the nearest integer, ties to even
RoundInt(num, den) ==
    LET q == num \div den
        r == num % den
    IN  IF 2 * r > den \/ (2 * r = den /\ q % 2 = 1) THEN q + 1 ELSE q

\* coverage_lakhs * base_rate * age_multiplier * health_multiplier * 1000
\* with the three factors in tenths is a number of thousandths of
\* thousand rupees
calculate_premium_estimate(age, coverage_lakhs, policy_type, health) ==
    LET base_rate == BaseRate(policy_type)
        age_multiplier == AgeMultiplier(age)
        health_factor == PremiumHealthMultiplier(health)
    IN  [estimated_premium |->
             RoundInt(coverage_lakhs * base_rate * age_multiplier
                      * health_factor * 1000, 1000),
         base_rate |-> base_rate,
         age_factor |-> age_multiplier,
         health_factor |-> health_factor]

(***************************************************************************)
(* agent.py generate_llm_reasoning and get_policy_recommendation_with_ai.  *)
(* gen is what the text-generation pipeline does when it is called: it     *)
(* raises, returns something that is no list of dicts, or returns text.    *)
(***************************************************************************)
Generates(text) == [kind |-> "text", text |-> text]
GenRaises == [kind |-> "raises", text |-> <<>>]
GenMalformed == [kind |-> "malformed", text |-> <<>>]

\* the strings generate_llm_reasoning returns, by their template and the
\* values formatted into it
NoReasoning == [template |-> "", policy_type |-> "", text |-> <<>>]
ProfileFallback(policy) ==
    [template |-> "Based on your profile analysis",
     policy_type |-> policy.Policy_Type, text |-> <<>>]
ExceptionFallback(policy) ==
    [template |-> "Profile Analysis",
     policy_type |-> policy.Policy_Type, text |-> <<>>]
CompletedFallback ==
    [template |-> "AI analysis completed. This policy matches your profile requirements.",
     policy_type |-> "", text |-> <<>>]
AIAnalysis(reasoning) ==
    [template |-> "AI Analysis", policy_type |-> "", text |-> reasoning]

ReasoningReturned(r) == [raised |-> "", value |-> r]
ReasoningRaised(exc) == [raised |-> exc, value |-> NoReasoning]

\* generate_llm_reasoning with the pipeline call outside the try block
generate_llm_reasoning_NoTry(pipeline, gen, recommended_policy) ==
    IF pipeline = "None"
    THEN ReasoningReturned(ProfileFallback(recommended_policy))
    ELSE IF gen.kind = "raises" THEN ReasoningRaised("RuntimeError")
    ELSE IF gen.kind = "malformed"
    THEN ReasoningReturned(ExceptionFallback(recommended_policy))
    ELSE LET reasoning == Strip(gen.text)
         IN  IF reasoning # <<>>
             THEN ReasoningReturned(AIAnalysis(reasoning))
             ELSE ReasoningReturned(CompletedFallback)

generate_llm_reasoning(pipeline, gen, recommended_policy) ==
    IF pipeline = "None"
    THEN ReasoningReturned(ProfileFallback(recommended_policy))
    ELSE IF gen.kind = "raises" \/ gen.kind = "malformed"
    THEN \* except Exception
         ReasoningReturned(ExceptionFallback(recommended_policy))
    ELSE LET reasoning == Strip(gen.text)
         IN  IF reasoning # <<>>
             THEN ReasoningReturned(AIAnalysis(reasoning))
             ELSE ReasoningReturned(CompletedFallback)

\* what get_policy_recommendation_with_ai hands back: the dict of
\* get_policy_recommendations_enhanced, with or without the added key
NoAnswer ==
    [kind |-> "none", data |-> NoOutcome, has_ai_reasoning |-> FALSE,
     ai_reasoning |-> NoReasoning]
AnswerRaised(exc) == [NoAnswer EXCEPT !.kind = "raised", !.data = RaisedOutcome(exc)]
AnswerReturned(data) == [NoAnswer EXCEPT !.kind = "returned", !.data = data]

\* the wrapper returning a fresh dict that holds only the reasoning
WithReasoning_FreshDict(recommendation_data, pipeline, gen) ==
    IF recommendation_data.kind = "raised"
    THEN AnswerRaised(recommendation_data.error)
    ELSE IF recommendation_data.kind = "error"
    THEN AnswerReturned(recommendation_data)
    ELSE LET r == generate_llm_reasoning(pipeline, gen,
                                         recommendation_data.best_policy)
         IN  IF r.raised # "" THEN AnswerRaised(r.raised)
             ELSE [kind |-> "returned",
                   data |-> [NoOutcome EXCEPT !.kind = "result"],
                   has_ai_reasoning |-> TRUE,
                   ai_reasoning |-> r.value]

\* the function without the test of line 110: an error dict goes on to
\* recommendation_data["best_policy"]
WithReasoning_NoErrorTest(recommendation_data, pipeline, gen) ==
    IF recommendation_data.kind = "raised"
    THEN AnswerRaised(recommendation_data.error)
    ELSE IF recommendation_data.kind = "error"
    THEN AnswerRaised("KeyError")
    ELSE LET r == generate_llm_reasoning(pipeline, gen,
                                         recommendation_data.best_policy)
         IN  IF r.raised # "" THEN AnswerRaised(r.raised)
             ELSE [kind |-> "returned",
                   data |-> recommendation_data,
                   has_ai_reasoning |-> TRUE,
                   ai_reasoning |-> r.value]

\* get_policy_recommendation_with_ai after the call of
\* get_policy_recommendations_enhanced, whose outcome is recommendation_data
WithReasoning(recommendation_data, pipeline, gen) ==
    IF recommendation_data.kind = "raised"
    THEN AnswerRaised(recommendation_data.error)
    ELSE IF recommendation_data.kind = "error"
    THEN AnswerReturned(recommendation_data)
    ELSE LET r == generate_llm_reasoning(pipeline, gen,
                                         recommendation_data.best_policy)
         IN  IF r.raised # "" THEN AnswerRaised(r.raised)
             ELSE [kind |-> "returned",
                   data |-> recommendation_data,
                   has_ai_reasoning |-> TRUE,
                   ai_reasoning |-> r.value]

\* whether that call reaches generate_llm_reasoning
ReachesReasoning(recommendation_data) == recommendation_data.kind = "result"

\* what the pipeline did in that call: it is called only from
\* generate_llm_reasoning and only when llm_pipeline is not None
NoGeneration == [kind |-> "not called", text |-> <<>>]
GenerationIn(recommendation_data, pipeline, gen) ==
    IF ReachesReasoning(recommendation_data) /\ pipeline # "None"
    THEN gen ELSE NoGeneration

(***************************************************************************)
(* Inputs: profiles that pass validate_user_input.                         *)
(***************************************************************************)
\* "Family Critical"
GoalFamilyCritical ==
    <<"F","a","m","i","l","y"," ","C","r","i","t","i","c","a","l">>
\* "my DEPENDENTS"
GoalDependents ==
    <<"m","y"," ","D","E","P","E","N","D","E","N","T","S">>
\* "Serious illness"
GoalSerious ==
    <<"S","e","r","i","o","u","s"," ","i","l","l","n","e","s","s">>
\* "save for critical"
GoalSaveCritical ==
    <<"s","a","v","e"," ","f","o","r"," ","c","r","i","t","i","c","a","l">>
\* "Investment"
GoalInvestment ==
    <<"I","n","v","e","s","t","m","e","n","t">>
\* "retire"
GoalRetire ==
    <<"r","e","t","i","r","e">>

Goals == {GoalFamilyCritical, GoalDependents, GoalSerious, GoalSaveCritical,
          GoalInvestment, GoalRetire}

Profile(a, i, h, g) == [age |-> a, income |-> i, health |-> h, goal |-> g]
NoRequest == Profile(0, 0, "", <<>>)

Profiles ==
    { Profile(a, i, h, g) : a \in {22, 55}, i \in {4, 20},
                            h \in HealthValues, g \in {GoalFamilyCritical, GoalRetire} }

PipeProfiles ==
    { Profile(a, 8, h, g) : a \in {30, 55}, h \in HealthValues, g \in Goals }

LongProfiles ==
    { Profile(30, 8, h, g) : h \in {"Good", "Poor"}, g \in {GoalRetire, GoalDependents} }

\* the local risk_score on entry to the filter block, which only copies it
BlockRiskInputs == {165}

NotComputed == [computed |-> FALSE, raised |-> FALSE, value |-> 0]
Computed(r) == [computed |-> TRUE, raised |-> r.raised, value |-> r.value]

\* which collaborators a request reached: load_clean_data, its body (a read
\* of the source), generate_llm_reasoning, the pipeline; and whether a read
\* of the source at that moment would have given rows
NoneInvoked ==
    [load |-> FALSE, body |-> FALSE, source_readable |-> FALSE, llm |-> FALSE,
     generation |-> NoGeneration]
InvokedBy(c, src, reasoning, generation) ==
    [load |-> TRUE, body |-> BodyRuns(c),
     source_readable |-> read_csv(src).df # <<>>, llm |-> reasoning,
     generation |-> generation]

\* st.session_state after lines 53-57: both keys None
NoSession == [user_profile |-> NoRequest, recommendation_data |-> NoAnswer]

NoValidation ==
    [fn |-> "", age |-> PyNum(0), income |-> PyNum(0), health |-> "",
     goal |-> <<>>, called |-> FALSE, ret |-> Validated(FALSE, "")]
NoScore ==
    [age |-> 0, health |-> "", income |-> 0, called |-> FALSE,
     utils |-> RiskValue(0), clean |-> RiskValue(0)]
NoScores == <<NoScore, NoScore>>
NoEstimate ==
    [age |-> 0, coverage_lakhs |-> 0, policy_type |-> "", health |-> "",
     called |-> FALSE,
     ret |-> [estimated_premium |-> 0, base_rate |-> 0, age_factor |-> 0,
              health_factor |-> 0]]

\* the Policy Comparison page: whether the run showed the warning, or read
\* recommendation_data["top_policies"], and the exception that read raised
NoPage == [viewed |-> FALSE, read |-> FALSE, raised |-> ""]

\* nothing requested yet
NoRequestYet ==
    /\ page = NoPage
    /\ request = NoRequest
    /\ risk = NotComputed
    /\ stage = NoStage
    /\ outcome = NoOutcome
    /\ reads = 0
    /\ invoked = NoneInvoked
    /\ answer = NoAnswer
    /\ session = NoSession

\* no function called on its own yet
NoFunctionCalled ==
    /\ validation = NoValidation
    /\ scored = NoScores
    /\ estimate = NoEstimate

functionVars == <<validation, scored, estimate>>

(***************************************************************************)
(* The program: calls of get_policy_recommendations_enhanced.              *)
(***************************************************************************)
Init ==
    /\ source \in {MissingFile, UnparseableFile}
                  \cup { FileWith(rows) : rows \in SeqsUpTo(RowSet, MaxRows) }
    /\ cache = NotCached
    /\ llm_pipeline = "None"
    /\ NoRequestYet
    /\ NoFunctionCalled

get_policy_recommendations_enhanced(age, income, health, goal) ==
    LET ld == load_clean_data(cache, source)
        df == ld.df
        \* risk_score = calculate_risk_score(age, income, health)
        rs == calculate_risk_score(PyNum(age), PyNum(income), PyStr(health))
    IN  /\ request' = Profile(age, income, health, goal)
        /\ cache' = CacheAfter(cache, ld)
        /\ reads' = IF BodyRuns(cache) THEN reads + 1 ELSE reads
        /\ UNCHANGED source
        /\ IF ld.raised # ""
           THEN /\ outcome' = RaisedOutcome(ld.raised)
                /\ risk' = NotComputed
                /\ stage' = NoStage
           ELSE IF df = <<>>
           THEN /\ outcome' = ErrorOutcome(ErrNoData)
                /\ risk' = NotComputed
                /\ stage' = NoStage
           ELSE IF rs.raised
           THEN /\ outcome' = RaisedOutcome("TypeError")
                /\ risk' = Computed(rs)
                /\ stage' = NoStage
           ELSE /\ stage' = StagesOf(df, age, income, health, goal)
                /\ outcome' = ResultOf(stage', rs.value)
                /\ risk' = Computed(rs)

Recommend ==
    \E p \in Profiles :
        /\ get_policy_recommendations_enhanced(p.age, p.income, p.health, p.goal)
        /\ invoked' = InvokedBy(cache, source, FALSE, NoGeneration)
        /\ UNCHANGED <<llm_pipeline, answer, session, functionVars, page>>

Next == Recommend

Spec == Init /\ [][Next]_vars

(***************************************************************************)
(* The filter-and-rank block (from the age filter to the return) applied   *)
(* once to a loaded, non-empty catalog and a drawn profile.                *)
(***************************************************************************)
BlockInit(rowset, maxlen) ==
    /\ \E rows \in SeqsUpTo(rowset, maxlen) \ {<<>>} :
          /\ source = FileWith(rows)
          /\ cache = Cached(ReadCsv(rows))
    /\ llm_pipeline = "None"
    /\ NoRequestYet
    /\ NoFunctionCalled

\* the block sorting and extending the catalog frame itself
CatalogAfter_InPlace(df, st) == IF st.goal = <<>> THEN st.goal ELSE st.ranked

\* The frame df after the block ran.  Lines 77-85 build age_filtered with
\* df[mask].copy(), lines 90-101 index it into new frames, lines 107-108
\* assign the two derived columns on age_filtered and line 111 sorts into
\* yet another frame: df is only read.
CatalogAfter(df, st) == df

BlockCall(p, rsk) ==
    /\ request' = p
    /\ stage' = StagesOf(cache.df, p.age, p.income, p.health, p.goal)
    /\ outcome' = ResultOf(stage', rsk)
    /\ cache' = Cached(CatalogAfter(cache.df, stage'))
    /\ UNCHANGED <<source, risk, reads, invoked, llm_pipeline,
                   answer, session, functionVars, page>>

BlockStep(profiles) ==
    \E p \in profiles, rsk \in BlockRiskInputs :
        /\ request = NoRequest
        /\ BlockCall(p, rsk)

PipeInit == BlockInit(RowSet, MaxRows)
PipeNext == BlockStep(PipeProfiles)
SpecPipeline == PipeInit /\ [][PipeNext]_vars

LongInit == BlockInit(LongRowSet, MaxLongRows)
LongNext == BlockStep(LongProfiles)
SpecLong == LongInit /\ [][LongNext]_vars

\* the block applied again and again to the frame the cache holds
RepeatProfiles ==
    { Profile(a, 8, h, GoalRetire) : a \in {30, 55}, h \in {"Good", "Poor"} }

RepeatInit == BlockInit(RowSet, MaxRows)

RepeatStep ==
    \E p \in RepeatProfiles, rsk \in BlockRiskInputs : BlockCall(p, rsk)

RepeatNext == RepeatStep

SpecRepeat == RepeatInit /\ [][RepeatNext]_vars

(***************************************************************************)
(* app.py: the "Get AI Recommendation" submit handler, which validates the *)
(* form and only then calls get_policy_recommendation_with_ai.  The names  *)
(* request, risk, stage, outcome, answer and invoked are locals of one     *)
(* script run, so each submit starts them afresh.                          *)
(***************************************************************************)
MaxSmallRows == 1

\* the catalog file in the runs that follow many requests
SmallSources ==
    {MissingFile, UnparseableFile}
    \cup { FileWith(rows) : rows \in SeqsUpTo(LongRowSet, MaxSmallRows) }

GoalEmpty == <<>>
GoalBlank == <<" ", " ", "\t", " ", " ", " ">>
\* " life  ": seven characters, four after strip()
GoalShort == <<" ", "l", "i", "f", "e", " ", " ">>

\* what the form can hold: the slider and number_input keep age and income
\* in range, the selectbox keeps health in its list, the goal is free text
AppForms ==
    { Profile(a, 20, "Good", g) : a \in {18, 55},
                                  g \in {GoalEmpty, GoalBlank, GoalShort,
                                         GoalRetire, GoalFamilyCritical} }

TextBlank == <<" ", "\n">>
TextFit == <<" ", "G", "o", "o", "d", " ", "f", "i", "t", ".", "\n">>
Generations ==
    {GenRaises, GenMalformed, Generates(<<>>), Generates(TextBlank),
     Generates(TextFit)}

ValidationOf(fn, age, income, health, goal, ret) ==
    [fn |-> fn, age |-> age, income |-> income, health |-> health,
     goal |-> goal, called |-> TRUE, ret |-> ret]

get_policy_recommendation_with_ai(age, income, health, goal, gen) ==
    /\ get_policy_recommendations_enhanced(age, income, health, goal)
    /\ answer' = WithReasoning(outcome', llm_pipeline, gen)
    /\ invoked' = InvokedBy(cache, source, ReachesReasoning(outcome'),
                             GenerationIn(outcome', llm_pipeline, gen))

\* the handler with the recommendation computed before the validity test
SubmitForm_RecommendFirst(age, income, health, goal, gen) ==
    LET v == validate_user_input(PyNum(age), PyNum(income), health, goal)
    IN  /\ validation' = ValidationOf("utils", PyNum(age), PyNum(income),
                                      health, goal, v)
        /\ page' = NoPage
        /\ UNCHANGED <<llm_pipeline, scored, estimate>>
        /\ get_policy_recommendation_with_ai(age, income, health, goal, gen)
        /\ IF v.raised # "" \/ ~v.ok
           THEN UNCHANGED session
           ELSE session' =
                    [user_profile |-> Profile(age, income, health, goal),
                     recommendation_data |->
                         IF answer'.kind = "returned" THEN answer'
                         ELSE session.recommendation_data]

SubmitForm(age, income, health, goal, gen) ==
    LET v == validate_user_input(PyNum(age), PyNum(income), health, goal)
    IN  /\ validation' = ValidationOf("utils", PyNum(age), PyNum(income),
                                      health, goal, v)
        /\ page' = NoPage
        /\ UNCHANGED <<llm_pipeline, scored, estimate>>
        /\ IF v.raised # "" \/ ~v.ok
           THEN \* st.error(validation_message)
                /\ request' = NoRequest
                /\ risk' = NotComputed
                /\ stage' = NoStage
                /\ outcome' = NoOutcome
                /\ answer' = NoAnswer
                /\ invoked' = NoneInvoked
                /\ UNCHANGED <<source, cache, reads, session>>
           ELSE /\ get_policy_recommendation_with_ai(age, income, health,
                                                      goal, gen)
                \* line 120 is reached only when the call returned
                /\ session' =
                       [user_profile |-> Profile(age, income, health, goal),
                        recommendation_data |->
                            IF answer'.kind = "returned" THEN answer'
                            ELSE session.recommendation_data]

Submit ==
    \E f \in AppForms, gen \in {GenRaises, Generates(TextFit)} :
        SubmitForm(f.age, f.income, f.health, f.goal, gen)

AppInit ==
    /\ source \in SmallSources
    /\ cache = NotCached
    /\ llm_pipeline \in {"None", "pipeline"}
    /\ NoRequestYet
    /\ NoFunctionCalled

\* a run of the script with the Policy Comparison page selected: the names
\* of a submission's run are gone, st.session_state is what remains
ViewComparison ==
    /\ page' =
          IF session.recommendation_data = NoAnswer
          THEN \* st.warning: recommendation_data is None
               [viewed |-> TRUE, read |-> FALSE, raised |-> ""]
          ELSE \* top_policies = recommendation_data["top_policies"]
               [viewed |-> TRUE, read |-> TRUE,
                raised |-> IF session.recommendation_data.data.kind = "result"
                           THEN "" ELSE "KeyError"]
    /\ request' = NoRequest
    /\ risk' = NotComputed
    /\ stage' = NoStage
    /\ outcome' = NoOutcome
    /\ answer' = NoAnswer
    /\ invoked' = NoneInvoked
    /\ validation' = NoValidation
    /\ UNCHANGED <<source, cache, reads, session, llm_pipeline, scored,
                   estimate>>

AppNext == Submit \/ ViewComparison

SpecApp == AppInit /\ [][AppNext]_vars

(***************************************************************************)
(* validate_user_input on its own: the arguments are drawn, then the       *)
(* function is applied.  utils.py is given numbers, as its annotations and *)
(* app.py's widgets say; insurance_app_clean.py converts its arguments and *)
(* is also given text that is no numeral.                                  *)
(***************************************************************************)
ValidateAges == {17, 18, 50, 100, 101}
ValidateIncomes == {-1, 0, 1, 1000, 1001}
ValidateHealths == {"Good", "Average", "Poor", "Excellent", "good"}
\* "plans" between blanks: five characters after strip()
GoalFive == <<"\n", "p", "l", "a", "n", "s", " ">>
\* "a   b": the blanks inside are kept by strip()
GoalInnerBlanks == <<" ", "a", " ", " ", " ", "b">>
GoalFour == <<"l", "i", "f", "e">>
ValidateGoals ==
    {GoalEmpty, GoalBlank, GoalShort, GoalFour, GoalFive, GoalInnerBlanks,
     GoalRetire}
NotANumeral == PyStr("abc")

ValidateArgs(fn, ages, incomes) ==
    { [fn |-> fn, age |-> a, income |-> i, health |-> h, goal |-> g,
       called |-> FALSE, ret |-> Validated(FALSE, "")] :
        a \in ages, i \in incomes, h \in ValidateHealths, g \in ValidateGoals }

ValidateInit ==
    /\ source = MissingFile
    /\ cache = NotCached
    /\ llm_pipeline = "None"
    /\ NoRequestYet
    /\ validation \in
         ValidateArgs("utils", { PyNum(a) : a \in ValidateAges },
                      { PyNum(i) : i \in ValidateIncomes })
         \cup ValidateArgs("clean",
                      { PyNum(a) : a \in ValidateAges } \cup {NotANumeral},
                      { PyNum(i) : i \in ValidateIncomes } \cup {NotANumeral})
    /\ scored = NoScores
    /\ estimate = NoEstimate

othersOfValidation ==
    <<source, cache, request, risk, stage, outcome, reads, invoked,
      llm_pipeline, answer, session, scored, estimate, page>>

ValidateUtils ==
    /\ ~validation.called
    /\ validation.fn = "utils"
    /\ validation' =
         [validation EXCEPT
            !.called = TRUE,
            !.ret = validate_user_input(validation.age, validation.income,
                                        validation.health, validation.goal)]
    /\ UNCHANGED othersOfValidation

ValidateClean ==
    /\ ~validation.called
    /\ validation.fn = "clean"
    /\ validation' =
         [validation EXCEPT
            !.called = TRUE,
            !.ret = validate_user_input_clean(validation.age,
                        validation.income, validation.health,
                        validation.goal)]
    /\ UNCHANGED othersOfValidation

ValidateNext == ValidateUtils \/ ValidateClean

SpecValidate == ValidateInit /\ [][ValidateNext]_vars

(***************************************************************************)
(* calculate_risk_score on its own: two argument triples are drawn, then   *)
(* both copies of the function are applied to the first and to the second. *)
(***************************************************************************)
ScoreAges == {18, 24, 25, 34, 35, 49, 50, 100}
ScoreHealths == {"Good", "Average", "Poor", "Excellent"}
ScoreIncomes == {4, 5, 14, 15}

ScoreArgs ==
    { [age |-> a, health |-> h, income |-> i, called |-> FALSE,
       utils |-> RiskValue(0), clean |-> RiskValue(0)] :
        a \in ScoreAges, h \in ScoreHealths, i \in ScoreIncomes }

ScoreInit ==
    /\ source = MissingFile
    /\ cache = NotCached
    /\ llm_pipeline = "None"
    /\ NoRequestYet
    /\ validation = NoValidation
    /\ scored \in ScoreArgs \X ScoreArgs
    /\ estimate = NoEstimate

othersOfScored ==
    <<source, cache, request, risk, stage, outcome, reads, invoked,
      llm_pipeline, answer, session, validation, estimate, page>>

ScoreOf(c) ==
    [c EXCEPT
       !.called = TRUE,
       !.utils = calculate_risk_score(PyNum(c.age), PyStr(c.health),
                                      PyNum(c.income)),
       !.clean = calculate_risk_score_clean(PyNum(c.age), PyStr(c.health),
                                            PyNum(c.income))]

ScoreFirst ==
    /\ ~scored[1].called
    /\ scored' = <<ScoreOf(scored[1]), scored[2]>>
    /\ UNCHANGED othersOfScored

ScoreSecond ==
    /\ scored[1].called
    /\ ~scored[2].called
    /\ scored' = <<scored[1], ScoreOf(scored[2])>>
    /\ UNCHANGED othersOfScored

ScoreNext == ScoreFirst \/ ScoreSecond

SpecScorer == ScoreInit /\ [][ScoreNext]_vars

(***************************************************************************)
(* calculate_premium_estimate on its own: the arguments are drawn, then    *)
(* the function is applied.                                                *)
(***************************************************************************)
PremiumAges == {18, 24, 25, 30, 34, 35, 44, 45, 54, 55, 60, 80}
\* the amounts of the Premium Calculator's selectbox
PremiumCoverages == {5, 10, 15, 20, 25, 30, 50}
PremiumPolicyTypes == PolicyTypes \cup {"Whole Life"}
PremiumHealths == HealthValues \cup {"Excellent"}

PremiumInit ==
    /\ source = MissingFile
    /\ cache = NotCached
    /\ llm_pipeline = "None"
    /\ NoRequestYet
    /\ validation = NoValidation
    /\ scored = NoScores
    /\ estimate \in
         { [NoEstimate EXCEPT !.age = a, !.coverage_lakhs = c,
                              !.policy_type = t, !.health = h] :
             a \in PremiumAges, c \in PremiumCoverages,
             t \in PremiumPolicyTypes, h \in PremiumHealths }

Estimate ==
    /\ ~estimate.called
    /\ estimate' =
         [estimate EXCEPT
            !.called = TRUE,
            !.ret = calculate_premium_estimate(estimate.age,
                        estimate.coverage_lakhs, estimate.policy_type,
                        estimate.health)]
    /\ UNCHANGED <<source, cache, request, risk, stage, outcome, reads,
                   invoked, llm_pipeline, answer, session, validation, scored,
                   page>>

PremiumNext == Estimate

SpecPremium == PremiumInit /\ [][PremiumNext]_vars

(***************************************************************************)
(* get_policy_recommendation_with_ai from the age filter on: the           *)
(* filter-and-rank block applied once to a loaded, non-empty catalog,      *)
(* followed by lines 110-123 of agent.py, with llm_pipeline either None or *)
(* loaded and the pipeline's behaviour drawn at the call.                  *)
(***************************************************************************)
AIProfiles ==
    { Profile(a, 8, h, GoalRetire) : a \in {30, 55}, h \in {"Good", "Poor"} }

AIInit ==
    /\ \E rows \in SeqsUpTo(RowSet, MaxRows) :
          /\ source = FileWith(rows)
          /\ cache = Cached(ReadCsv(rows))
    /\ llm_pipeline \in {"None", "pipeline"}
    /\ NoRequestYet
    /\ NoFunctionCalled

AIStep ==
    \E p \in AIProfiles, rsk \in BlockRiskInputs, gen \in Generations :
        /\ request = NoRequest
        /\ request' = p
        /\ IF cache.df = <<>>
           THEN \* if df.empty: return {"error": ...}
                /\ stage' = NoStage
                /\ outcome' = ErrorOutcome(ErrNoData)
           ELSE /\ stage' = StagesOf(cache.df, p.age, p.income, p.health,
                                     p.goal)
                /\ outcome' = ResultOf(stage', rsk)
        /\ answer' = WithReasoning(outcome', llm_pipeline, gen)
        /\ invoked' = [NoneInvoked EXCEPT
                         !.llm = ReachesReasoning(outcome'),
                         !.generation =
                             GenerationIn(outcome', llm_pipeline, gen)]
        /\ UNCHANGED <<source, cache, risk, reads, llm_pipeline, session,
                       functionVars, page>>

AINext == AIStep

SpecAI == AIInit /\ [][AINext]_vars

(***************************************************************************)
(* Requests over a catalog file that other programs create, replace,       *)
(* damage or delete while this process runs.                               *)
(***************************************************************************)
CacheInit ==
    /\ source \in SmallSources
    /\ cache = NotCached
    /\ llm_pipeline = "None"
    /\ NoRequestYet
    /\ NoFunctionCalled

SourceChanges ==
    \E src \in SmallSources :
        /\ src # source
        /\ source' = src
        /\ UNCHANGED <<cache, request, risk, stage, outcome, reads, invoked,
                       llm_pipeline, answer, session, functionVars, page>>

CacheNext == Recommend \/ SourceChanges

SpecCache == CacheInit /\ [][CacheNext]_vars

(***************************************************************************)
(* insurance_app_clean.py get_policy_recommendations: the simple path.     *)
(* Its load_clean_data (lines 44-54) is the same function as utils.py's.   *)
(* Of the outcome record, top_policies holds the list "policies" and       *)
(* total_available the count "total_policies_found"; of the stage record,  *)
(* age_cov holds age_filtered and health and goal hold health_filtered.    *)
(***************************************************************************)
SimpleAgeWindow == 5
SimpleShortlistSize == 3

ErrSimpleNoSuitable == "No suitable policies found for your profile"

\* df[(Age >= age - 5) & (Age <= age + 5)]
SimpleAgeStage(df, age) ==
    LET keep(r) == /\ r.Age >= age - SimpleAgeWindow
                   /\ r.Age <= age + SimpleAgeWindow
    IN  SelectSeq(df, keep)

\* the health filter restricting Poor health only, as the enhanced path does
SimpleHealthStage_AverageUnrestricted(age_filtered, health) ==
    LET health_filtered ==
            IF health = "Poor"
            THEN TypeIsIn(age_filtered, {"Health", "Comprehensive"})
            ELSE age_filtered
    IN  IF health_filtered = <<>> THEN age_filtered ELSE health_filtered

\* health_filtered after the if/elif/else and the fallback of lines 137-138
SimpleHealthStage(age_filtered, health) ==
    LET health_filtered ==
            IF health = "Poor"
            THEN TypeIsIn(age_filtered, {"Health", "Comprehensive"})
            ELSE IF health = "Good"
            THEN age_filtered
            ELSE TypeIsIn(age_filtered, {"Health", "Term Life", "Comprehensive"})
    IN  IF health_filtered = <<>> THEN age_filtered ELSE health_filtered

\* ['Coverage_Lakhs', 'Premium_INR'], ascending=[False, True]
SimpleKeyLess(a, b) ==
    \/ a.Coverage_Lakhs > b.Coverage_Lakhs
    \/ /\ a.Coverage_Lakhs = b.Coverage_Lakhs
       /\ a.Premium_INR < b.Premium_INR

SimpleSortValues(rows) ==
    LET n == Len(rows)
        Before(i, j) == \/ SimpleKeyLess(rows[i], rows[j])
                        \/ (~SimpleKeyLess(rows[j], rows[i]) /\ i < j)
        rank(i) == Cardinality({j \in 1..n : Before(j, i)})
    IN  [k \in 1..n |-> rows[CHOOSE i \in 1..n : rank(i) = k - 1]]

\* head(3)
SimpleHead(rows) ==
    IF Len(rows) <= SimpleShortlistSize THEN rows
    ELSE SubSeq(rows, 1, SimpleShortlistSize)

SimpleStagesOf(df, age, health) ==
    LET age_filtered == SimpleAgeStage(df, age)
        health_filtered == SimpleHealthStage(age_filtered, health)
    IN  [ran |-> TRUE, age_cov |-> age_filtered, health |-> health_filtered,
         goal |-> health_filtered,
         ranked |-> SimpleSortValues(health_filtered)]

SimpleResultOf(st, risk_score) ==
    IF st.health = <<>>
    THEN ErrorOutcome(ErrSimpleNoSuitable)
    ELSE [kind |-> "result", error |-> "",
          best_policy |-> NoPolicy,
          top_policies |-> SimpleHead(st.ranked),
          risk_score |-> risk_score,
          total_available |-> Len(st.health)]

get_policy_recommendations(age, income, health, goal) ==
    LET ld == load_clean_data(cache, source)
        df == ld.df
        \* risk_score = calculate_risk_score(age, health, income)
        rs == calculate_risk_score_clean(PyNum(age), PyStr(health),
                                         PyNum(income))
    IN  /\ request' = Profile(age, income, health, goal)
        /\ cache' = CacheAfter(cache, ld)
        /\ reads' = IF BodyRuns(cache) THEN reads + 1 ELSE reads
        /\ invoked' = InvokedBy(cache, source, FALSE, NoGeneration)
        /\ UNCHANGED <<source, llm_pipeline, answer, session, functionVars,
                       page>>
        /\ IF ld.raised # ""
           THEN /\ outcome' = RaisedOutcome(ld.raised)
                /\ risk' = NotComputed
                /\ stage' = NoStage
           ELSE IF df = <<>>
           THEN /\ outcome' = ErrorOutcome(ErrNoData)
                /\ risk' = NotComputed
                /\ stage' = NoStage
           ELSE IF rs.raised
           THEN /\ outcome' = RaisedOutcome("ValueError")
                /\ risk' = Computed(rs)
                /\ stage' = NoStage
           ELSE /\ stage' = SimpleStagesOf(df, age, health)
                /\ outcome' = SimpleResultOf(stage', rs.value)
                /\ risk' = Computed(rs)

SimpleProfiles ==
    { Profile(a, 8, h, GoalRetire) : a \in {22, 30, 45}, h \in HealthValues }

SimpleRecommend ==
    \E p \in SimpleProfiles :
        get_policy_recommendations(p.age, p.income, p.health, p.goal)

SimpleNext == SimpleRecommend

SpecSimple == Init /\ [][SimpleNext]_vars

(***************************************************************************)
(* What the claims expect, stated on the catalog and the request alone.    *)
(***************************************************************************)
Called == request # NoRequest

IsNoSuitable == outcome.kind = "error" /\ outcome.error = ErrNoSuitable

\* the goal rule each drawn goal text selects, by the stated precedence
ExpectedRule(goal) ==
    CASE goal = GoalFamilyCritical -> "coverage15"
      [] goal = GoalDependents -> "coverage15"
      [] goal = GoalSerious -> "health_types"
      [] goal = GoalSaveCritical -> "health_types"
      [] goal = GoalInvestment -> "term_types"
      [] OTHER -> "none"

PassesRule(r, rule) ==
    CASE rule = "coverage15" -> r.Coverage_Lakhs >= 15
      [] rule = "health_types" -> r.Policy_Type \in {"Health", "Comprehensive"}
      [] rule = "term_types" -> r.Policy_Type \in {"Term Life", "Comprehensive"}
      [] OTHER -> TRUE

PassesGoal(r) == PassesRule(r, ExpectedRule(request.goal))

PassesHealth(r) ==
    request.health = "Poor" => r.Policy_Type \in {"Health", "Comprehensive"}

InWindow(r) == r.Age - request.age \in -10..10

\* positions of the catalog rows that enter the health stage
BaseIdx ==
    LET df == cache.df
        W == {i \in DOMAIN df : InWindow(df[i]) /\ df[i].Coverage_Lakhs >= 10}
    IN  IF W = {} THEN {i \in DOMAIN df : df[i].Coverage_Lakhs >= 10} ELSE W

\* positions of the catalog rows that pass every restriction
SurvivorIdx ==
    {i \in BaseIdx : PassesHealth(cache.df[i]) /\ PassesGoal(cache.df[i])}

\* the catalog rows at the positions I, in catalog order
Pick(I) ==
    LET keep(r) == (r.idx + 1) \in I
    IN  SelectSeq(cache.df, keep)

\* C1: whenever the call returns a result, the shortlist is non-empty and
\* best_policy is the very row (same index, same values) that heads it.
C1_BestHeadsShortlist ==
    outcome.kind = "result" =>
        /\ Len(outcome.top_policies) >= 1
        /\ outcome.best_policy = outcome.top_policies[1]

C1_Witness ==
    /\ outcome.kind = "result"
    /\ Len(outcome.top_policies) >= 2
    /\ outcome.top_policies[2] # outcome.top_policies[1]

\* C3: a call on any catalog state ends by returning a result record or an
\* {error: ...} value, never by raising an exception.
C3_NeverRaises == outcome.kind # "raised"

\* C4: the risk score the call computes and returns is the Risk Scorer
\* applied to the profile with age as age, health as health, income as income.
C4_RiskScoreOfProfile ==
    LET want == calculate_risk_score(PyNum(request.age), PyStr(request.health),
                                     PyNum(request.income))
    IN  /\ risk.computed => (risk.raised = want.raised /\ risk.value = want.value)
        /\ outcome.kind = "result" => outcome.risk_score = want.value

\* the Health and Comprehensive rows of a candidate sequence, in order
HealthTypeRows(rows) ==
    LET keep(r) == r.Policy_Type \in {"Health", "Comprehensive"}
    IN  SelectSeq(rows, keep)

\* the rows of a candidate sequence that pass the request's goal rule
GoalRuleRows(rows) == SelectSeq(rows, PassesGoal)

C7_GoalRulePrecedence ==
    stage.ran =>
        /\ stage.goal = GoalRuleRows(stage.health)
        /\ request.goal = GoalFamilyCritical =>
               \A i \in DOMAIN stage.health :
                   stage.health[i].Coverage_Lakhs >= 15 =>
                       \E j \in DOMAIN stage.goal : stage.goal[j] = stage.health[i]
        /\ request.goal = GoalRetire => stage.goal = stage.health

C7_Witness ==
    /\ stage.ran
    /\ request.goal = GoalFamilyCritical
    /\ \E j \in DOMAIN stage.goal : stage.goal[j].Policy_Type = "Term Life"
    /\ \E i \in DOMAIN stage.health :
           /\ stage.health[i].Policy_Type = "Health"
           /\ stage.health[i].Coverage_Lakhs < 15
    /\ Len(stage.goal) < Len(stage.health)

\* the age-window stage with its fallback, then the coverage-floor stage
\* with its fallback, as two separate stages
C8_TwoStage ==
    LET df == cache.df
        floor(rows) == LET keep(r) == r.Coverage_Lakhs >= 10 IN SelectSeq(rows, keep)
        s1 == IF SelectSeq(df, InWindow) = <<>> THEN df ELSE SelectSeq(df, InWindow)
    IN  IF floor(s1) = <<>> THEN floor(df) ELSE floor(s1)

\* C8: after the age and coverage stages the candidates are the rows within
\* 10 years of the age with coverage >= 10 if there is one, else every row
\* with coverage >= 10; and that is what the two stages, each with its
\* fallback, give when applied one after the other.
C8_AgeCoverageCandidates ==
    stage.ran =>
        /\ stage.age_cov = Pick(BaseIdx)
        /\ stage.age_cov = C8_TwoStage

C8_Witness ==
    /\ stage.ran
    /\ \E i \in DOMAIN cache.df : InWindow(cache.df[i])
    /\ ~\E i \in DOMAIN cache.df :
           InWindow(cache.df[i]) /\ cache.df[i].Coverage_Lakhs >= 10
    /\ \E i \in DOMAIN stage.age_cov : ~InWindow(stage.age_cov[i])

\* the three-key order on catalog columns: affordability (premium over
\* income) ascending, then age distance ascending, then coverage descending
C9_AgeDiff(r) ==
    IF r.Age >= request.age THEN r.Age - request.age ELSE request.age - r.Age

C9_Before(a, b) ==
    LET den == request.income * 1000
        fa == a.Premium_INR * 12
        fb == b.Premium_INR * 12
    IN  \/ fa * den < fb * den
        \/ fa * den = fb * den /\ C9_AgeDiff(a) < C9_AgeDiff(b)
        \/ /\ fa * den = fb * den
           /\ C9_AgeDiff(a) = C9_AgeDiff(b)
           /\ a.Coverage_Lakhs > b.Coverage_Lakhs

\* C9: the rows of a result carry age_diff and affordability_score as
\* defined, are in the three-key order, and no candidate row left out of
\* the shortlist ranks strictly before a shortlisted row.
C9_RankedByThreeKeys ==
    outcome.kind = "result" =>
        LET top == outcome.top_policies
            shortlisted == {top[i].idx : i \in DOMAIN top}
        IN  /\ \A i \in DOMAIN top :
                  /\ top[i].age_diff = C9_AgeDiff(top[i])
                  /\ top[i].affordability_score[1] * (request.income * 1000)
                       = top[i].Premium_INR * 12 * top[i].affordability_score[2]
            /\ \A i, j \in DOMAIN top : i < j => ~C9_Before(top[j], top[i])
            /\ \A c \in SurvivorIdx :
                  (cache.df[c].idx \notin shortlisted) =>
                      \A i \in DOMAIN top : ~C9_Before(cache.df[c], top[i])

C9_Witness ==
    /\ outcome.kind = "result"
    /\ outcome.total_available > 5
    /\ LET top == outcome.top_policies
       IN  /\ top[1].Premium_INR < top[2].Premium_INR
           /\ top[1].age_diff > top[2].age_diff
           /\ \E i \in 2..4 :
                  /\ top[i].Premium_INR = top[i + 1].Premium_INR
                  /\ top[i].age_diff = top[i + 1].age_diff
                  /\ top[i].Coverage_Lakhs > top[i + 1].Coverage_Lakhs
           /\ \E i \in 2..4 :
                  /\ top[i].Premium_INR = top[i + 1].Premium_INR
                  /\ top[i].age_diff < top[i + 1].age_diff

\* C10: total_available counts the candidates left after every filter, the
\* shortlist has min(5, total_available) rows, and they are the first rows
\* of the ranking in rank order.
C10_ShortlistIsRankingPrefix ==
    outcome.kind = "result" =>
        LET top == outcome.top_policies
            total == outcome.total_available
        IN  /\ total = Cardinality(SurvivorIdx)
            /\ Len(top) = IF total < 5 THEN total ELSE 5
            /\ Len(stage.ranked) = total
            /\ \A i \in DOMAIN top : top[i] = stage.ranked[i]

C10_Witness ==
    /\ outcome.kind = "result"
    /\ outcome.total_available > 5
    /\ Len(outcome.top_policies) = 5
    /\ outcome.top_policies[5] # stage.ranked[6]

(***************************************************************************)
(* C12  A submitted form that validate_user_input rejects (age outside     *)
(* 18..100, income <= 0 or > 1000, health outside Good/Average/Poor, goal  *)
(* empty or shorter than 5 characters after trimming) is rejected before   *)
(* any catalog access: that request calls neither load_clean_data nor the  *)
(* recommendation, and leaves the cache, the read count and the stored     *)
(* session untouched.                                                      *)
(***************************************************************************)
\* the number of characters from the first to the last non-blank one
TrimmedLength(goal) ==
    LET I == { i \in 1..Len(goal) : goal[i] \notin {" ", "\t", "\n"} }
    IN  IF I = {} THEN 0
        ELSE 1 + (CHOOSE hi \in I : \A j \in I : j <= hi)
               - (CHOOSE lo \in I : \A j \in I : lo <= j)

InvalidInput(age, income, health, goal) ==
    \/ age < 18 \/ age > 100
    \/ income <= 0 \/ income > 1000
    \/ health \notin {"Good", "Average", "Poor"}
    \/ TrimmedLength(goal) < 5

C12_Rejected ==
    /\ validation.called
    /\ InvalidInput(validation.age.v, validation.income.v,
                    validation.health, validation.goal)

C13_ValidExactlyWhenInRange ==
    validation.called =>
        LET numeric == validation.age.t = "num" /\ validation.income.t = "num"
            valid == /\ numeric
                     /\ ~InvalidInput(validation.age.v, validation.income.v,
                                      validation.health, validation.goal)
        IN  /\ validation.ret.raised = ""
            /\ validation.ret.ok <=> valid
            /\ validation.ret.ok => validation.ret.message = MsgValid
            /\ ~validation.ret.ok =>
                  validation.ret.message \in
                      {MsgAge, MsgIncome, MsgHealth, MsgNoGoal, MsgShortGoal,
                       MsgNumeric}

\* the upper ends of both ranges with a goal of five characters between
\* blanks are accepted by utils.py
C13_Witness ==
    /\ validation.called
    /\ validation.fn = "utils"
    /\ validation.age = PyNum(100)
    /\ validation.income = PyNum(1000)
    /\ validation.goal = GoalFive
    /\ validation.ret = Validated(TRUE, MsgValid)

(***************************************************************************)
(* C14  calculate_risk_score returns a value for every age, health and     *)
(* income of the validated domain, and the value is the product            *)
(* base(age) * healthFactor * incomeFactor rounded to two decimals, with   *)
(* base 1.0 below 25, 1.5 below 35, 2.0 below 50, 3.0 otherwise; health    *)
(* factor Good 1.0, Average 1.5, Poor 2.5, anything else 1.0; income       *)
(* factor 1.3 below 5, 1.1 below 15, 0.9 otherwise.                        *)
(***************************************************************************)
\* the product of the three factors, in thousandths
C14_Product(c) ==
    LET base == IF c.age < 25 THEN 10 ELSE IF c.age < 35 THEN 15
                ELSE IF c.age < 50 THEN 20 ELSE 30
        healthFactor == CASE c.health = "Good" -> 10
                          [] c.health = "Average" -> 15
                          [] c.health = "Poor" -> 25
                          [] OTHER -> 10
        incomeFactor == IF c.income < 5 THEN 13 ELSE IF c.income < 15 THEN 11
                        ELSE 9
    IN  base * healthFactor * incomeFactor

\* v hundredths is a nearest two-decimal value of p thousandths
C14_RoundedTo2(v, p) == 10 * v - p \in -5..5

C14_ScoreIsRoundedProduct ==
    \A k \in 1..2 :
        scored[k].called =>
            /\ ~scored[k].utils.raised
            /\ ~scored[k].clean.raised
            /\ C14_RoundedTo2(scored[k].utils.value, C14_Product(scored[k]))
            /\ scored[k].clean.value = scored[k].utils.value

\* 1.5 * 1.5 * 1.3 = 2.925, a product that needs rounding, scored 2.93
C14_Witness ==
    /\ scored[1].called
    /\ scored[1].age = 34
    /\ scored[1].health = "Average"
    /\ scored[1].income = 4
    /\ scored[1].utils = RiskValue(293)

(***************************************************************************)
(* C15  With the other two inputs fixed, calculate_risk_score does not     *)
(* decrease when age grows, nor when health goes from Good to Average to   *)
(* Poor.                                                                   *)
(***************************************************************************)
C15_Severity(h) == CASE h = "Good" -> 0 [] h = "Average" -> 1 [] h = "Poor" -> 2

C15_Graded(h) == h \in {"Good", "Average", "Poor"}

C15_MonotoneInAgeAndHealth ==
    (scored[1].called /\ scored[2].called) =>
        /\ ( /\ scored[1].health = scored[2].health
             /\ scored[1].income = scored[2].income
             /\ scored[1].age <= scored[2].age )
           => /\ scored[1].utils.value <= scored[2].utils.value
              /\ scored[1].clean.value <= scored[2].clean.value
        /\ ( /\ scored[1].age = scored[2].age
             /\ scored[1].income = scored[2].income
             /\ C15_Graded(scored[1].health) /\ C15_Graded(scored[2].health)
             /\ C15_Severity(scored[1].health) <= C15_Severity(scored[2].health) )
           => /\ scored[1].utils.value <= scored[2].utils.value
              /\ scored[1].clean.value <= scored[2].clean.value

\* ages 34 and 35 on either side of a bracket, same health and income:
\* 2.02 against 2.70
C15_Witness ==
    /\ scored[1].called /\ scored[2].called
    /\ scored[1].age = 34 /\ scored[2].age = 35
    /\ scored[1].health = "Average" /\ scored[2].health = "Average"
    /\ scored[1].income = 15 /\ scored[2].income = 15
    /\ scored[1].utils = RiskValue(202)
    /\ scored[2].utils = RiskValue(270)

(***************************************************************************)
(* C16  calculate_premium_estimate returns estimated_premium =             *)
(* round(coverage_lakhs * base_rate * age_factor * health_factor * 1000)   *)
(* together with the three factors: base_rate 0.5 Term Life, 0.8 Health,   *)
(* 1.2 Comprehensive, 0.3 Accident Cover, 0.8 otherwise; age_factor 0.8    *)
(* below 25, 1.0 below 35, 1.3 below 45, 1.7 below 55, 2.5 otherwise;      *)
(* health_factor 1.0 Good, 1.3 Average, 2.0 Poor, 1.0 otherwise.  So       *)
(* (30, 10, Term Life, Good) gives 5000 and (60, 20, Health, Poor) gives   *)
(* 80000.                                                                  *)
(***************************************************************************)
\* the three factors in tenths
C16_BaseRate(t) ==
    CASE t = "Term Life" -> 5 [] t = "Health" -> 8 [] t = "Comprehensive" -> 12
      [] t = "Accident Cover" -> 3 [] OTHER -> 8

C16_AgeFactor(a) ==
    IF a < 25 THEN 8 ELSE IF a < 35 THEN 10 ELSE IF a < 45 THEN 13
    ELSE IF a < 55 THEN 17 ELSE 25

C16_HealthFactor(h) ==
    CASE h = "Good" -> 10 [] h = "Average" -> 13 [] h = "Poor" -> 20
      [] OTHER -> 10

\* with one decimal in each factor, tenths^3 * 1000 is a whole number of
\* rupees
C16_Rupees(e) ==
    e.coverage_lakhs * C16_BaseRate(e.policy_type) * C16_AgeFactor(e.age)
    * C16_HealthFactor(e.health)

C16_Is(e, a, c, t, h) ==
    e.age = a /\ e.coverage_lakhs = c /\ e.policy_type = t /\ e.health = h

C16_PremiumIsRoundedProduct ==
    estimate.called =>
        /\ estimate.ret.estimated_premium = C16_Rupees(estimate)
        /\ estimate.ret.base_rate = C16_BaseRate(estimate.policy_type)
        /\ estimate.ret.age_factor = C16_AgeFactor(estimate.age)
        /\ estimate.ret.health_factor = C16_HealthFactor(estimate.health)
        /\ C16_Is(estimate, 30, 10, "Term Life", "Good")
              => estimate.ret.estimated_premium = 5000
        /\ C16_Is(estimate, 60, 20, "Health", "Poor")
              => estimate.ret.estimated_premium = 80000

C16_Witness ==
    /\ estimate.called
    /\ C16_Is(estimate, 60, 20, "Health", "Poor")
    /\ estimate.ret = [estimated_premium |-> 80000, base_rate |-> 8,
                       age_factor |-> 25, health_factor |-> 20]

(***************************************************************************)
(* C17  get_policy_recommendation_with_ai returns the same best_policy,    *)
(* shortlist, risk_score and total (or the same error) as                  *)
(* get_policy_recommendations_enhanced returned to it, whether             *)
(* llm_pipeline is None, the generation raises, or it succeeds; the only   *)
(* difference is the added ai_reasoning.                                   *)
(***************************************************************************)
C17_SameRecommendationWithReasoning ==
    Called =>
        /\ outcome.kind = "raised" <=> answer.kind = "raised"
        /\ outcome.kind # "raised" =>
              /\ answer.kind = "returned"
              /\ answer.data.kind = outcome.kind
              /\ answer.data.error = outcome.error
              /\ answer.data.best_policy = outcome.best_policy
              /\ answer.data.top_policies = outcome.top_policies
              /\ answer.data.risk_score = outcome.risk_score
              /\ answer.data.total_available = outcome.total_available
              /\ answer.has_ai_reasoning <=> outcome.kind = "result"

\* a recommendation with two shortlisted rows, returned unchanged although
\* the generation raised
C17_Witness ==
    /\ Called
    /\ outcome.kind = "result"
    /\ Len(outcome.top_policies) >= 2
    /\ invoked.generation = GenRaises
    /\ answer.kind = "returned"
    /\ answer.data = outcome
    /\ answer.has_ai_reasoning

(***************************************************************************)
(* C18  generate_llm_reasoning never lets a failure of the text            *)
(* generation out: when llm_pipeline is None, when the generation raises,  *)
(* and when it returns empty text, it returns a fallback string instead    *)
(* of raising.                                                             *)
(***************************************************************************)
C18_Fallbacks ==
    { "Based on your profile analysis", "Profile Analysis",
      "AI analysis completed. This policy matches your profile requirements." }

C18_GenerationFailed ==
    \/ llm_pipeline = "None"
    \/ invoked.generation.kind \in {"raises", "malformed"}
    \/ invoked.generation.kind = "text"
       /\ TrimmedLength(invoked.generation.text) = 0

C18_ReasoningNeverRaises ==
    invoked.llm =>
        /\ answer.kind = "returned"
        /\ answer.has_ai_reasoning
        /\ answer.ai_reasoning # NoReasoning
        /\ C18_GenerationFailed <=> answer.ai_reasoning.template \in C18_Fallbacks

\* the loaded pipeline returned only blanks, and the fixed sentence came
\* back
C18_Witness ==
    /\ invoked.llm
    /\ llm_pipeline = "pipeline"
    /\ invoked.generation = Generates(TextBlank)
    /\ answer.kind = "returned"
    /\ answer.ai_reasoning = CompletedFallback

(***************************************************************************)
(* C19  When the catalog file is missing or cannot be parsed,              *)
(* load_clean_data returns an empty table without raising, and             *)
(* get_policy_recommendations_enhanced then returns the error 'Unable to   *)
(* load insurance data' without computing a risk score or applying any     *)
(* filter.                                                                 *)
(***************************************************************************)
C19_SourceFailed == ~source.exists \/ ~source.parses

C20_ReadOnceState ==
    /\ reads <= 1
    /\ cache.loaded <=> reads = 1
    /\ Called => cache.loaded
    /\ (Called /\ cache.df = <<>>) => outcome = ErrorOutcome(ErrNoData)

C20_SourceReadAtMostOnce ==
    /\ []C20_ReadOnceState
    /\ [][cache.loaded => cache' = cache]_vars

\* the first load failed; the file then got rows; the last request found
\* it readable, did not read it, and returned the error
C20_Witness ==
    /\ Called
    /\ reads = 1
    /\ cache = Cached(<<>>)
    /\ invoked.load
    /\ ~invoked.body
    /\ invoked.source_readable
    /\ outcome = ErrorOutcome(ErrNoData)

(***************************************************************************)
(* C21  No recommendation changes the cached catalog: after any sequence   *)
(* of calls, returning a result or an error, the cached frame has the rows *)
(* of the file as loaded, in file order, with the loaded columns and       *)
(* values; age_diff and affordability_score exist only on the rows of the  *)
(* request's own copy.                                                     *)
(***************************************************************************)
C21_LoadedColumns ==
    {"idx", "Policy_Type", "Coverage_Lakhs", "Premium_INR", "Age"}

C22_InWindow(r) == Abs(r.Age - request.age) <= 5

C22_Window == SelectSeq(cache.df, C22_InWindow)

C22_HealthAllows(r) ==
    CASE request.health = "Poor" ->
             r.Policy_Type \in {"Health", "Comprehensive"}
      [] request.health = "Average" ->
             r.Policy_Type \in {"Health", "Term Life", "Comprehensive"}
      [] request.health = "Good" -> TRUE

C22_Restricted == SelectSeq(C22_Window, C22_HealthAllows)

C22_Candidates ==
    IF C22_Restricted = <<>> THEN C22_Window ELSE C22_Restricted

C22_IsNoSuitable ==
    outcome.kind = "error" /\ outcome.error = ErrSimpleNoSuitable

C22_SimplePathCandidates ==
    (Called /\ cache.df # <<>>) =>
        /\ stage.age_cov = C22_Window
        /\ stage.health = C22_Candidates
        /\ C22_IsNoSuitable <=> C22_Window = <<>>
        /\ C22_Window # <<>> =>
              /\ outcome.kind = "result"
              /\ outcome.total_available = Len(C22_Candidates)

\* Average health: the window holds an Accident Cover row of 5 lakhs and
\* another row; the Accident Cover row is left out, the other is returned
C22_Witness ==
    /\ Called
    /\ request.health = "Average"
    /\ \E i \in 1..Len(C22_Window) :
          /\ C22_Window[i].Policy_Type = "Accident Cover"
          /\ C22_Window[i].Coverage_Lakhs < 10
    /\ C22_Restricted # <<>>
    /\ outcome.kind = "result"
    /\ outcome.total_available = Len(C22_Restricted)
    /\ outcome.total_available < Len(C22_Window)

(***************************************************************************)
(* C23  For every profile of the validated domain (age 18..100, income     *)
(* 1..1000, health Good, Average or Poor) calculate_risk_score returns a   *)
(* value between 0.9 and 9.75, so the score never exceeds 10.  Scores are  *)
(* held in hundredths: 90 and 975.                                         *)
(***************************************************************************)
C23_Validated(c) ==
    /\ c.age \in MinAge..MaxAge
    /\ c.income \in 1..MaxIncome
    /\ c.health \in HealthValues

C23_InRange(r) == ~r.raised /\ r.value >= 90 /\ r.value <= 975

C23_ScoreWithinBounds ==
    \A k \in 1..2 :
        (scored[k].called /\ C23_Validated(scored[k])) =>
            /\ C23_InRange(scored[k].utils)
            /\ C23_InRange(scored[k].clean)

\* both ends are attained: 3.0 * 2.5 * 1.3 = 9.75 and 1.0 * 1.0 * 0.9 = 0.9
C23_Witness ==
    /\ scored[1].called /\ C23_Validated(scored[1])
    /\ scored[1].health = "Poor"
    /\ scored[1].utils = RiskValue(975)
    /\ scored[2].called /\ C23_Validated(scored[2])
    /\ scored[2].health = "Good"
    /\ scored[2].utils = RiskValue(90)

(***************************************************************************)
(* C24  In every successful result of get_policy_recommendations_enhanced  *)
(* every row of the shortlist, and the best policy, has Coverage_Lakhs of  *)
(* at least 10, whether the age window or its fallback selected the rows   *)
(* and whichever health and goal branches ran.                             *)
(***************************************************************************)
C24_CoverageFloorHolds ==
    outcome.kind = "result" =>
        /\ \A i \in 1..Len(outcome.top_policies) :
              outcome.top_policies[i].Coverage_Lakhs >= 10
        /\ outcome.best_policy.Coverage_Lakhs >= 10

\* the age window is empty, the fallback runs over a catalog that holds a
\* row of less than 10 lakhs, and a result is returned
C24_Witness ==
    /\ outcome.kind = "result"
    /\ AgeCoverageMask(cache.df, request.age) = <<>>
    /\ \E i \in 1..Len(cache.df) : cache.df[i].Coverage_Lakhs < 10
    /\ Len(outcome.top_policies) >= 1

(***************************************************************************)
(* C25  Whenever the Policy Comparison page reads top_policies from        *)
(* st.session_state.recommendation_data, the stored value is a successful  *)
(* recommendation: an error outcome stored by an earlier valid submission  *)
(* never reaches that read.  Violated: app.py:120 stores whatever the      *)
(* recommendation call returned, before the error test of line 122, and    *)
(* the page tests the stored value against None only.                      *)
(***************************************************************************)
C25_ComparisonReadsSuccess ==
    page.read =>
        /\ session.recommendation_data.kind = "returned"
        /\ session.recommendation_data.data.kind = "result"
        /\ page.raised = ""

(***************************************************************************)
(* C26  When get_policy_recommendations_enhanced returns an error value    *)
(* (no data, or no suitable policy), get_policy_recommendation_with_ai     *)
(* returns that same error value unchanged, with no ai_reasoning added,    *)
(* and neither generate_llm_reasoning nor the text-generation pipeline is  *)
(* invoked.                                                                *)
(***************************************************************************)
C26_ErrorPassedThrough ==
    outcome.kind = "error" =>
        /\ outcome.error \in {ErrNoData, ErrNoSuitable}
        /\ answer = AnswerReturned(outcome)
        /\ ~answer.has_ai_reasoning
        /\ answer.ai_reasoning = NoReasoning
        /\ ~invoked.llm
        /\ invoked.generation = NoGeneration

\* no row of the catalog has 10 lakhs: the no-suitable-policy error comes
\* back as it is although a pipeline is loaded
C26_Witness ==
    /\ request # NoRequest
    /\ cache.df # <<>>
    /\ outcome = ErrorOutcome(ErrNoSuitable)
    /\ llm_pipeline = "pipeline"
    /\ answer.kind = "returned"
    /\ answer.data = outcome
    /\ ~invoked.llm

====
